---- MODULE Spec2Model ----
(***************************************************************************)
(* A model of mantono/fire's variable resolution and template substitution *)
(* (src/src/prop.rs, src/src/template.rs, src/src/templ.rs,                *)
(* src/src/args.rs).                                                       *)
(*                                                                         *)
(* Text that is scanned or parsed (templates, keys, values, file content)  *)
(* is a sequence of one-character strings; a path is the sequence of its   *)
(* components, each a string.  A HashMap is a function whose DOMAIN is its *)
(* key set; a HashSet is a set.                                            *)
(***************************************************************************)
EXTENDS Integers, Sequences, FiniteSets, TLC

VARIABLES
    maps,       \* merge: the Vec<Property> handed to merge
    sorted,     \* merge: maps after maps.sort()
    merged,     \* merge: the HashMap merge returned (NoMap before the call)
    mpc,        \* merge: "build" while the caller builds the Vec, then "merged"
    template,   \* find_keys: the characters of the template consumed so far
    braces,     \* find_keys: the brace counters (u8, u8)
    state,      \* find_keys: the Vec<char> of the candidate key
    keys,       \* find_keys: the HashSet<String> of keys found
    panicked,   \* find_keys: TRUE once panic!("Braces ran out of control") ran
    input,      \* substitution: the template text (parameter input)
    given,      \* substitution: the Vec<Property> (parameter vars)
    interactive,\* substitution: the interactive flag
    required,   \* substitution: the HashSet find_keys returned (local keys)
    mapping,    \* resolve_values: the HashMap vars, then the returned one
    diff,       \* resolve_values: the keys of diff the for loop has yet to take
    added,      \* resolve_values: the HashMap added
    asking,     \* resolve_values: the key of the loop iteration in progress
    prompts,    \* the prompt collaborator's log: [key, answer] per prompt
    outcome,    \* substitution: what it returned (NoOutcome before)
    spc,        \* substitution: where the call stands
    fs,         \* the files on disk: path |-> content
    denied,     \* the directories whose read_dir fails (permission denied)
    ioFailure,  \* the call of find_env_files that fails: canonicalize, git_root, none
    gitRoot,    \* what giro::git_root(&end) finds: <<path>> or <<>> (None)
    osEnv,      \* std::env::vars(): a sequence of <<key, value>>
    environments, \* Args.env: the environment names asked for
    argVars,    \* Args.arg_vars: the Properties parsed from -E
    stack,      \* WalkDir: the directories being read, innermost last
    seen,       \* WalkDir: the directory entries already yielded
    found,      \* find_env_files: the Vec<PathBuf> collected so far
    envResult,  \* Args::env: what it returned (NoResult before)
    epc,        \* Args::env: where the call stands
    flags,      \* Args: the fields request, headers, ask and interactive
    answers,    \* Args: what the accessors called so far returned
    req,        \* HttpRequest: method, url, body and headers
    hres,       \* set_default_headers: what the last call returned
    calls       \* set_default_headers: the number of calls that returned

mergeVars == <<maps, sorted, merged, mpc>>
scanVars == <<template, braces, state, keys, panicked>>
substVars == <<input, given, interactive, required, mapping, diff, added, asking,
               prompts, outcome, spc>>

envVars == <<fs, denied, ioFailure, gitRoot, osEnv, environments, argVars, stack, seen,
             found, envResult, epc>>

cliVars == <<flags, answers, req, hres, calls>>

vars == <<mergeVars, scanVars, substVars, envVars, cliVars>>

(***************************************************************************)
(* Bounds and input alphabets                                              *)
(***************************************************************************)
MaxProps == 4
MaxLen == 8
MaxGiven == 2
MaxFiles == 2
MaxLine == 4
MaxCalls == 2

\* The (key, value) pairs a Property is made of, and the depths of a File
\* source (those of test_merge_properties and test_properties_sort_order).
Entries ==
    { <<(<<"k", "e", "y">>), (<<"a">>)>>,
      <<(<<"k", "e", "y">>), (<<"b">>)>>,
      <<(<<"o", "t", "h", "e", "r">>), (<<"a">>)>> }
Depths == {0, 1}

(***************************************************************************)
(* prop.rs: Source, Property and their orderings                           *)
(***************************************************************************)
EnvVar == [kind |-> "EnvVar", depth |-> 0]
Arg == [kind |-> "Arg", depth |-> 0]
File(d) == [kind |-> "File", depth |-> d]

Sources == {EnvVar, Arg} \cup {File(d) : d \in Depths}

\* usize::cmp
usize_cmp(a, b) == IF a < b THEN "Less" ELSE IF a = b THEN "Equal" ELSE "Greater"

\* A plausible slip: File sources compared d0.cmp(d1) instead of d1.cmp(d0).
Source_cmp_ascending_depth(x, y) ==
    CASE x.kind = "EnvVar" /\ y.kind = "EnvVar" -> "Equal"
      [] x.kind = "Arg" /\ y.kind = "Arg" -> "Equal"
      [] x.kind = "File" /\ y.kind = "File" -> usize_cmp(x.depth, y.depth)
      [] x.kind = "File" /\ y.kind = "EnvVar" -> "Less"
      [] x.kind = "EnvVar" -> "Greater"
      [] x.kind = "File" /\ y.kind = "Arg" -> "Greater"
      [] x.kind = "Arg" -> "Less"

\* impl Ord for Source: the match arms in order (TLC takes the first true arm
\* only when arms overlap, so the arms are made disjoint by their order).
Source_cmp(x, y) ==
    IF x.kind = "EnvVar" /\ y.kind = "EnvVar" THEN "Equal"
    ELSE IF x.kind = "Arg" /\ y.kind = "Arg" THEN "Equal"
    ELSE IF x.kind = "File" /\ y.kind = "File" THEN usize_cmp(y.depth, x.depth)
    ELSE IF x.kind = "File" /\ y.kind = "EnvVar" THEN "Less"
    ELSE IF x.kind = "EnvVar" THEN "Greater"
    ELSE IF x.kind = "File" /\ y.kind = "Arg" THEN "Greater"
    ELSE "Less"

\* Property::new
Property(k, v, s) == [key |-> k, value |-> v, source |-> s]

Properties == {Property(e[1], e[2], s) : e \in Entries, s \in Sources}

\* impl Ord for Property: by source only
Property_cmp(p, q) == Source_cmp(p.source, q.source)

(***************************************************************************)
(* Vec::sort (stable), Iterator::rev, collect::<HashMap>                   *)
(***************************************************************************)
\* An unstable sort: x goes before the elements equal to it
sort_insert_before_equals(s, x) ==
    LET n == Cardinality({i \in 1..Len(s) : Property_cmp(s[i], x) = "Less"})
    IN SubSeq(s, 1, n) \o <<x>> \o SubSeq(s, n + 1, Len(s))

\* x goes behind every element that is not Greater than it: equal elements
\* keep the order they had in the input (slice::sort is stable).
sort_insert(s, x) ==
    LET n == Cardinality({i \in 1..Len(s) : Property_cmp(s[i], x) # "Greater"})
    IN SubSeq(s, 1, n) \o <<x>> \o SubSeq(s, n + 1, Len(s))

RECURSIVE sort(_)
sort(s) ==
    IF s = <<>> THEN <<>>
    ELSE sort_insert(sort(SubSeq(s, 1, Len(s) - 1)), s[Len(s)])

rev(s) == [i \in 1..Len(s) |-> s[Len(s) + 1 - i]]

EmptyMap == [k \in {} |-> <<>>]

\* HashMap::insert: a later insertion of a key replaces the earlier value
insert(m, k, v) == [x \in DOMAIN m \cup {k} |-> IF x = k THEN v ELSE m[x]]

RECURSIVE collect(_)
collect(s) ==
    IF s = <<>> THEN EmptyMap
    ELSE LET p == s[Len(s)]
         IN insert(collect(SubSeq(s, 1, Len(s) - 1)), p.key, p.value)

(***************************************************************************)
(* template.rs: merge                                                      *)
(***************************************************************************)
\* A plausible slip: the .rev() is forgotten.
merge_without_rev(m) == collect(sort(m))

\* A plausible slip: maps.sort_by(|a, b| b.cmp(a)) and no .rev(): the
\* precedence is kept, Properties of equal rank are inserted in input order.
merge_sort_descending(m) == collect(rev(sort(rev(m))))

merge(m) == collect(rev(sort(m)))

NoMap == "NoMap"

MergeIdle ==
    /\ maps = <<>>
    /\ sorted = <<>>
    /\ merged = NoMap
    /\ mpc = "build"

NoOutcome == [type |-> "None", error |-> "", key |-> <<>>, text |-> <<>>]

SubstIdle ==
    /\ input = <<>>
    /\ given = <<>>
    /\ interactive = FALSE
    /\ required = {}
    /\ mapping = EmptyMap
    /\ diff = {}
    /\ added = EmptyMap
    /\ asking = <<>>
    /\ prompts = <<>>
    /\ outcome = NoOutcome
    /\ spc = "idle"

NoResult == [type |-> "None", props |-> <<>>, error |-> <<>>]

EnvIdle ==
    /\ fs = EmptyMap
    /\ denied = {}
    /\ ioFailure = "none"
    /\ gitRoot = <<>>
    /\ osEnv = <<>>
    /\ environments = <<>>
    /\ argVars = <<>>
    /\ stack = <<>>
    /\ seen = {}
    /\ found = <<>>
    /\ envResult = NoResult
    /\ epc = "idle"

NoRequest == [method |-> "", url |-> "", body |-> <<>>, headers |-> <<>>]

CliIdle ==
    /\ flags = [request |-> FALSE, headers |-> FALSE, ask |-> FALSE, interactive |-> FALSE]
    /\ answers = <<>>
    /\ req = NoRequest
    /\ hres = "none"
    /\ calls = 0

ScanIdle ==
    /\ template = <<>>
    /\ braces = <<0, 0>>
    /\ state = <<>>
    /\ keys = {}
    /\ panicked = FALSE

InitMerge == MergeIdle /\ ScanIdle /\ SubstIdle /\ EnvIdle /\ CliIdle

\* The caller puts one more Property into the Vec (Property::new; the Vec is
\* whatever the caller builds, as in test_merge_properties).
PushProperty(k, v, s) ==
    /\ mpc = "build"
    /\ Len(maps) < MaxProps
    /\ maps' = Append(maps, Property(k, v, s))
    /\ UNCHANGED <<sorted, merged, mpc>>
    /\ UNCHANGED <<scanVars, substVars, envVars, cliVars>>

\* merge(maps): maps.sort(), then into_iter().rev().map(..).collect()
Merge ==
    /\ mpc = "build"
    /\ sorted' = sort(maps)
    /\ merged' = merge(maps)
    /\ mpc' = "merged"
    /\ UNCHANGED maps
    /\ UNCHANGED <<scanVars, substVars, envVars, cliVars>>

NextMerge ==
    \/ \E e \in Entries, s \in Sources : PushProperty(e[1], e[2], s)
    \/ Merge

SpecMerge == InitMerge /\ [][NextMerge]_vars

(***************************************************************************)
(* templ.rs: Token and find_keys                                           *)
(***************************************************************************)
\* The identifier characters ('a'..='z' | 'A'..='Z' | '0'..='9' | '-' | '_')
\* that occur in the model's texts
IdenChars == {"A", "B", "E", "F", "M", "N", "O", "R", "H", "e", "l", "o", "0", "-", "_"}

\* The characters SpecScan feeds the scanner: both braces, the space, an
\* identifier character and a character of no other class
ScanChars == {"{", "}", " ", "A", "$"}

\* A plausible slip: the space is taken for an identifier character.
Token_space_is_iden(c) ==
    IF c \in IdenChars \cup {" "} THEN [type |-> "IdenChar", char |-> c]
    ELSE IF c = "{" THEN [type |-> "LeftBrace", char |-> c]
    ELSE IF c = "}" THEN [type |-> "RightBrace", char |-> c]
    ELSE [type |-> "OtherChar", char |-> c]

\* impl From<char> for Token
Token(c) ==
    IF c \in IdenChars THEN [type |-> "IdenChar", char |-> c]
    ELSE IF c = " " THEN [type |-> "Space", char |-> c]
    ELSE IF c = "{" THEN [type |-> "LeftBrace", char |-> c]
    ELSE IF c = "}" THEN [type |-> "RightBrace", char |-> c]
    ELSE [type |-> "OtherChar", char |-> c]

\* The locals of find_keys
Scanner(b, s, k, p) == [braces |-> b, state |-> s, keys |-> k, panicked |-> p]

ScannerInit == Scanner(<<0, 0>>, <<>>, {}, FALSE)

\* A scanner that counts the second closing brace instead of resetting
scan_char_counting(sc, c) ==
    LET token == Token(c)
        b == sc.braces
        s == sc.state
        k == sc.keys
    IN  IF b = <<0, 0>> THEN
            IF token.type = "LeftBrace" THEN Scanner(<<1, 0>>, s, k, FALSE)
            ELSE Scanner(b, <<>>, k, FALSE)
        ELSE IF b = <<1, 0>> THEN
            IF token.type = "LeftBrace" THEN Scanner(<<2, 0>>, s, k, FALSE)
            ELSE Scanner(b, <<>>, k, FALSE)
        ELSE IF b = <<2, 0>> THEN
            CASE token.type = "LeftBrace" -> sc
              [] token.type = "RightBrace" ->
                    IF s = <<>> THEN Scanner(<<0, 0>>, s, k, FALSE)
                    ELSE Scanner(<<2, 1>>, s, k, FALSE)
              [] token.type = "Space" -> Scanner(<<0, 0>>, s, k, FALSE)
              [] token.type = "IdenChar" -> Scanner(b, Append(s, token.char), k, FALSE)
              [] token.type = "OtherChar" -> Scanner(<<0, 0>>, s, k, FALSE)
        ELSE IF b = <<2, 1>> THEN
            CASE token.type = "LeftBrace" -> Scanner(<<0, 0>>, s, k, FALSE)
              [] token.type = "RightBrace" ->
                    IF s # <<>> THEN Scanner(<<2, 2>>, <<>>, k \cup {s}, FALSE)
                    ELSE Scanner(<<2, 2>>, s, k, FALSE)
              [] token.type = "Space" -> Scanner(<<0, 0>>, s, k, FALSE)
              [] token.type = "IdenChar" -> Scanner(b, Append(s, token.char), k, FALSE)
              [] token.type = "OtherChar" -> Scanner(<<0, 0>>, s, k, FALSE)
        ELSE Scanner(b, s, k, TRUE)

\* One iteration of `for char in template.chars()`: the match on braces and,
\* inside it, on the token.
scan_char(sc, c) ==
    LET token == Token(c)
        b == sc.braces
        s == sc.state
        k == sc.keys
    IN  IF b = <<0, 0>> THEN
            IF token.type = "LeftBrace" THEN Scanner(<<1, 0>>, s, k, FALSE)
            ELSE Scanner(b, <<>>, k, FALSE)
        ELSE IF b = <<1, 0>> THEN
            IF token.type = "LeftBrace" THEN Scanner(<<2, 0>>, s, k, FALSE)
            ELSE Scanner(b, <<>>, k, FALSE)
        ELSE IF b = <<2, 0>> THEN
            CASE token.type = "LeftBrace" -> sc
              [] token.type = "RightBrace" ->
                    IF s = <<>> THEN Scanner(<<0, 0>>, s, k, FALSE)
                    ELSE Scanner(<<2, 1>>, s, k, FALSE)
              [] token.type = "Space" -> Scanner(<<0, 0>>, s, k, FALSE)
              [] token.type = "IdenChar" -> Scanner(b, Append(s, token.char), k, FALSE)
              [] token.type = "OtherChar" -> Scanner(<<0, 0>>, s, k, FALSE)
        ELSE IF b = <<2, 1>> THEN
            CASE token.type = "LeftBrace" -> Scanner(<<0, 0>>, s, k, FALSE)
              [] token.type = "RightBrace" ->
                    IF s # <<>> THEN Scanner(<<0, 0>>, <<>>, k \cup {s}, FALSE)
                    ELSE Scanner(<<0, 0>>, s, k, FALSE)
              [] token.type = "Space" -> Scanner(<<0, 0>>, s, k, FALSE)
              [] token.type = "IdenChar" -> Scanner(b, Append(s, token.char), k, FALSE)
              [] token.type = "OtherChar" -> Scanner(<<0, 0>>, s, k, FALSE)
        ELSE Scanner(b, s, k, TRUE)

RECURSIVE scan(_)
scan(t) ==
    IF t = <<>> THEN ScannerInit
    ELSE scan_char(scan(SubSeq(t, 1, Len(t) - 1)), t[Len(t)])

\* find_keys(template): the keys when the loop has consumed every character
find_keys(t) == scan(t).keys

InitScan == MergeIdle /\ ScanIdle /\ SubstIdle /\ EnvIdle /\ CliIdle

\* The loop of find_keys takes the next character c of the template.
ScanChar(c) ==
    /\ ~panicked
    /\ Len(template) < MaxLen
    /\ LET sc == scan_char(Scanner(braces, state, keys, panicked), c)
       IN  /\ braces' = sc.braces
           /\ state' = sc.state
           /\ keys' = sc.keys
           /\ panicked' = sc.panicked
    /\ template' = Append(template, c)
    /\ UNCHANGED <<mergeVars, substVars, envVars, cliVars>>

NextScan == \E c \in ScanChars : ScanChar(c)

SpecScan == InitScan /\ [][NextScan]_vars

(***************************************************************************)
(* template.rs: substitution and resolve_values                            *)
(***************************************************************************)
\* The placeholder of key k: two opening braces, k, two closing braces
Placeholder(k) == <<"{", "{">> \o k \o <<"}", "}">>

NAME == <<"N", "A", "M", "E">>
FOO == <<"F", "O", "O">>
BAR == <<"B", "A", "R">>
World == <<"W", "o", "r", "l", "d">>
Hello == <<"H", "e", "l", "l", "o">>

\* The templates substitution is run on: plain text, one placeholder (the
\* "Hello {{NAME}}" of the documentation), two placeholders, the scanner's
\* test template, a placeholder with inner spaces and one behind an
\* abandoned candidate.
Templates ==
    { Hello,
      Hello \o <<" ">> \o Placeholder(NAME),
      Placeholder(FOO) \o <<" ">> \o Placeholder(BAR),
      Placeholder(FOO) \o <<" ", "{", "{", "}", "}", "-", " ", "{", "{", "{", "}", "}", "}",
                            " ", "{", "{", " ", " ", "}", "}", " ">> \o Placeholder(BAR),
      <<"{", "{", " ">> \o NAME \o <<" ", "}", "}">>,
      <<"{", "{", "A", " ">> \o Placeholder(<<"B">>) }

\* The Properties substitution is given
GivenProperties ==
    {Property(k, v, s) : k \in {NAME, FOO}, v \in {World}, s \in {EnvVar, Arg}}
        \cup {Property(BAR, <<"x">>, File(1))}

\* The lines the operator may type at a prompt
Lines == {<<>>, World, <<"x">>}

RECURSIVE SeqsUpTo(_, _)
SeqsUpTo(S, n) ==
    IF n = 0 THEN {<<>>}
    ELSE LET shorter == SeqsUpTo(S, n - 1)
         IN shorter \cup {Append(q, x) : q \in shorter, x \in S}

\* Err(SubstitutionError::MissingValue(k)), Err(SubstitutionError::Rendering),
\* Ok(text)
MissingValue(k) == [type |-> "Err", error |-> "MissingValue", key |-> k, text |-> <<>>]
Rendering == [type |-> "Err", error |-> "Rendering", key |-> <<>>, text |-> <<>>]
Ok(text) == [type |-> "Ok", error |-> "", key |-> <<>>, text |-> text]

\* A resolve_values that takes every key for missing
difference_everything(ks, m) == ks

\* keys.difference(&vars.into_keys().collect())
difference(ks, m) == ks \ DOMAIN m

\* A plausible slip: the interactive flag is tested the wrong way round.
resolve_values_inverted(inter, ks, m) ==
    IF difference(ks, m) = {} THEN "Ok"
    ELSE IF ~inter THEN "Prompt"
    ELSE "Err"

\* resolve_values: which of its three branches runs
resolve_values(inter, ks, m) ==
    IF difference(ks, m) = {} THEN "Ok"
    ELSE IF inter THEN "Prompt"
    ELSE "Err"

\* allow_empty(false): the prompt takes no empty line
allow_empty == FALSE

\* A plausible slip: the answers never reach the returned map.
chain_drops_added(m, a) == m

\* vars.into_iter().chain(added).collect()
chain(m, a) == [k \in DOMAIN m \cup DOMAIN a |-> IF k \in DOMAIN a THEN a[k] ELSE m[k]]

\* One entry of the prompt log: the key asked for and, once given, the answer
Asked(k) == [key |-> k, answered |-> FALSE, answer |-> <<>>]
Answered(k, line) == [key |-> k, answered |-> TRUE, answer |-> line]

InitSubst ==
    /\ MergeIdle /\ ScanIdle /\ EnvIdle /\ CliIdle
    /\ input \in Templates
    /\ given \in SeqsUpTo(GivenProperties, MaxGiven)
    /\ interactive \in BOOLEAN
    /\ required = {}
    /\ mapping = EmptyMap
    /\ diff = {}
    /\ added = EmptyMap
    /\ asking = <<>>
    /\ prompts = <<>>
    /\ outcome = NoOutcome
    /\ spc = "start"

\* substitution up to the first prompt: find_keys, merge, and resolve_values
\* as far as its branch: Ok(vars), the start of the prompt loop, or
\* Err(MissingValue(one key of diff)).
Resolve ==
    /\ spc = "start"
    /\ required' = find_keys(input)
    /\ mapping' = merge(given)
    /\ LET branch == resolve_values(interactive, required', mapping')
           d == difference(required', mapping')
       IN  CASE branch = "Ok" ->
                    /\ spc' = "rendering"
                    /\ UNCHANGED <<diff, added, outcome>>
             [] branch = "Prompt" ->
                    /\ spc' = "loop"
                    /\ diff' = d
                    /\ added' = EmptyMap
                    /\ UNCHANGED outcome
             [] branch = "Err" ->
                    /\ \E k \in d : outcome' = MissingValue(k)
                    /\ spc' = "failed"
                    /\ UNCHANGED <<diff, added>>
    /\ UNCHANGED <<input, given, interactive, asking, prompts>>
    /\ UNCHANGED <<mergeVars, scanVars, envVars, cliVars>>

\* for key in diff: the loop takes a key (a HashSet iterates in any order)
\* and input.with_prompt(key).allow_empty(false).interact_text() opens the
\* prompt.
PromptBegin ==
    /\ spc = "loop"
    /\ \E key \in diff :
           /\ asking' = key
           /\ diff' = diff \ {key}
           /\ prompts' = Append(prompts, Asked(key))
    /\ spc' = "asking"
    /\ UNCHANGED <<input, given, interactive, required, mapping, added, outcome>>
    /\ UNCHANGED <<mergeVars, scanVars, envVars, cliVars>>

\* interact_text() returns Ok(line): added.insert(key, value), and after the
\* last key Ok(vars chained with added).
PromptAnswer(line) ==
    /\ spc = "asking"
    /\ line # <<>> \/ allow_empty
    /\ added' = insert(added, asking, line)
    /\ prompts' = [prompts EXCEPT ![Len(prompts)] = Answered(asking, line)]
    /\ IF diff = {}
       THEN /\ mapping' = chain(mapping, added')
            /\ spc' = "rendering"
       ELSE /\ spc' = "loop"
            /\ UNCHANGED mapping
    /\ UNCHANGED <<input, given, interactive, required, diff, asking, outcome>>
    /\ UNCHANGED <<mergeVars, scanVars, envVars, cliVars>>

\* interact_text() returns Err: .unwrap() panics.
PromptFail ==
    /\ spc = "asking"
    /\ spc' = "panicked"
    /\ UNCHANGED <<input, given, interactive, required, mapping, diff, added, asking,
                   prompts, outcome>>
    /\ UNCHANGED <<mergeVars, scanVars, envVars, cliVars>>

(***************************************************************************)
(* template.rs: the Handlebars registry substitution renders with          *)
(* (no_escape, strict mode).  Of Handlebars this models: text outside      *)
(* "{{"; an expression {{name}} or {{{name}}}, with optional spaces around *)
(* the name, replaced by the value of name; any other expression is a      *)
(* template syntax error; a name without a value is a render error.        *)
(***************************************************************************)
\* The first index from i on at which p occurs in t, 0 if there is none
hb_find(t, p, i) ==
    LET hits == {j \in i..Len(t) : j >= 1 /\ j + Len(p) - 1 <= Len(t)
                                    /\ SubSeq(t, j, j + Len(p) - 1) = p}
    IN IF hits = {} THEN 0 ELSE CHOOSE j \in hits : \A h \in hits : j <= h

\* str::trim for the space of the model
RECURSIVE trim(_)
trim(t) ==
    IF t = <<>> THEN t
    ELSE IF t[1] = " " THEN trim(SubSeq(t, 2, Len(t)))
    ELSE IF t[Len(t)] = " " THEN trim(SubSeq(t, 1, Len(t) - 1))
    ELSE t

Rendered(st, text) == [status |-> st, text |-> text]

RECURSIVE hb_render(_, _, _)
hb_render(t, m, i) ==
    IF i > Len(t) THEN Rendered("ok", <<>>)
    ELSE IF i + 1 <= Len(t) /\ t[i] = "{" /\ t[i + 1] = "{" THEN
        LET triple == i + 2 <= Len(t) /\ t[i + 2] = "{"
            open == IF triple THEN 3 ELSE 2
            close == IF triple THEN <<"}", "}", "}">> ELSE <<"}", "}">>
            j == hb_find(t, close, i + open)
        IN  IF j = 0 THEN Rendered("syntax", <<>>)
            ELSE LET name == trim(SubSeq(t, i + open, j - 1))
                 IN  IF name = <<>> \/ \E n \in 1..Len(name) : name[n] \notin IdenChars
                     THEN Rendered("syntax", <<>>)
                     ELSE IF name \notin DOMAIN m THEN Rendered("missing", <<>>)
                     ELSE LET rest == hb_render(t, m, j + open)
                          IN Rendered(rest.status, m[name] \o rest.text)
    ELSE LET rest == hb_render(t, m, i + 1)
         IN Rendered(rest.status, <<t[i]>> \o rest.text)

\* register_template_string("template", input) and render("template", &vars)
render(t, m) == hb_render(t, m, 1)

\* The rest of substitution: register_template_string(..).unwrap() panics on
\* a template Handlebars cannot parse; render's error becomes
\* Err(SubstitutionError::Rendering); otherwise Ok(the rendered text).
Render ==
    /\ spc = "rendering"
    /\ LET r == render(input, mapping)
       IN  CASE r.status = "syntax" -> spc' = "panicked" /\ UNCHANGED outcome
             [] r.status = "missing" -> spc' = "failed" /\ outcome' = Rendering
             [] r.status = "ok" -> spc' = "done" /\ outcome' = Ok(r.text)
    /\ UNCHANGED <<input, given, interactive, required, mapping, diff, added, asking, prompts>>
    /\ UNCHANGED <<mergeVars, scanVars, envVars, cliVars>>

NextSubst ==
    \/ Resolve
    \/ PromptBegin
    \/ \E line \in Lines : PromptAnswer(line)
    \/ PromptFail
    \/ Render

SpecSubst == InitSubst /\ [][NextSubst]_vars

(***************************************************************************)
(* prop.rs: parsing a variable file                                        *)
(***************************************************************************)
\* str::split_once(DELIMITER): the index of the first '=', 0 if none
DELIMITER == "="

first_index(t, c) ==
    LET hits == {i \in 1..Len(t) : t[i] = c}
    IN IF hits = {} THEN 0 ELSE CHOOSE i \in hits : \A h \in hits : i <= h

\* str::trim_matches(&['\'', '"']): every leading and trailing quote goes
RECURSIVE trim_matches(_, _)
trim_matches(t, cs) ==
    IF t = <<>> THEN t
    ELSE IF t[1] \in cs THEN trim_matches(SubSeq(t, 2, Len(t)), cs)
    ELSE IF t[Len(t)] \in cs THEN trim_matches(SubSeq(t, 1, Len(t) - 1), cs)
    ELSE t

\* normalize: input.trim().trim_matches(b)
normalize(t) == trim_matches(trim(t), {"'", "\""})

Parsed(p) == [ok |-> TRUE, prop |-> p, error |-> <<>>]
\* Err(ParsePropertyError::Entry(s))
Entry(t) == [ok |-> FALSE, prop |-> Property(<<>>, <<>>, EnvVar), error |-> t]

\* impl FromStr for Property
from_str(t) ==
    LET i == first_index(t, DELIMITER)
    IN IF i = 0 THEN Entry(t)
       ELSE Parsed(Property(normalize(SubSeq(t, 1, i - 1)),
                            normalize(SubSeq(t, i + 1, Len(t))), EnvVar))

\* Property::with_source
with_source(p, src) == [p EXCEPT !.source = src]

\* str::lines: the pieces between line feeds, a last empty piece dropped
RECURSIVE lines(_)
lines(content) ==
    IF content = <<>> THEN <<>>
    ELSE LET i == first_index(content, "\n")
         IN IF i = 0 THEN <<content>>
            ELSE <<SubSeq(content, 1, i - 1)>> \o lines(SubSeq(content, i + 1, Len(content)))

\* Path::components().count() of an absolute path: the root and every name
components_count(path) == Len(path)

\* A source that counts the components of the file's directory
source_of_directory(path) == File(components_count(SubSeq(path, 1, Len(path) - 1)))

\* source(path): the depth of a file is the component count of its own path
source(path) == File(components_count(path))

FileOk(ps) == [type |-> "Ok", props |-> ps, error |-> <<>>]
FileErr(e) == [type |-> "Err", props |-> <<>>, error |-> e]

\* A from_file that leaves out the lines that do not parse
RECURSIVE collect_results_skipping(_, _)
collect_results_skipping(ls, src) ==
    IF ls = <<>> THEN FileOk(<<>>)
    ELSE LET r == from_str(ls[1])
             rest == collect_results_skipping(SubSeq(ls, 2, Len(ls)), src)
         IN IF ~r.ok THEN rest
            ELSE FileOk(<<with_source(r.prop, src)>> \o rest.props)

\* The Properties of the lines ls, or the first line that does not parse
RECURSIVE collect_results(_, _)
collect_results(ls, src) ==
    IF ls = <<>> THEN FileOk(<<>>)
    ELSE LET r == from_str(ls[1])
         IN IF ~r.ok THEN FileErr(r.error)
            ELSE LET rest == collect_results(SubSeq(ls, 2, Len(ls)), src)
                 IN IF rest.type = "Err" THEN rest
                    ELSE FileOk(<<with_source(r.prop, src)>> \o rest.props)

\* from_file(path): the non-blank lines of the file, each parsed and tagged
\* with the file's source
from_file(path, content) ==
    LET ls == lines(content)
        kept == SelectSeq(ls, LAMBDA l : trim(l) # <<>>)
    IN collect_results(kept, source(path))

(***************************************************************************)
(* args.rs: Args::env, read_sys_envs, read_file_envs, read_arg_vars and    *)
(* find_env_files                                                          *)
(***************************************************************************)
\* The directories of the model: the request file is /w/repo/api/req, the
\* repository (when there is one) is /w/repo, /w/repo/lib is a directory
\* beside the request's and /w/repo/api/sub one below it.
WorkDir == <<"/", "w">>
RepoDir == WorkDir \o <<"repo">>
ApiDir == RepoDir \o <<"api">>
LibDir == RepoDir \o <<"lib">>
RequestFile == ApiDir \o <<"req">>
SubDir == ApiDir \o <<"sub">>
Directories == {WorkDir, RepoDir, ApiDir, LibDir, SubDir}

\* The variable files that may be on disk, and what one may hold
GlobalName == ".env"
DevName == "dev.env"
SecName == ".sec"
DevSecName == "dev.sec"
OtherName == "notes"
FilePaths ==
    {d \o <<n>> : d \in {RepoDir, ApiDir}, n \in {GlobalName, DevName}}
        \cup {ApiDir \o <<n>> : n \in {SecName, DevSecName, OtherName}}
        \cup {d \o <<GlobalName>> : d \in {WorkDir, LibDir, SubDir}}
KEY == <<"k", "e", "y">>
\* A file holds key=a, key=b, or a line that has no '='
Malformed == KEY \o <<"\n">>
Contents == { KEY \o <<"=", "a", "\n">>, KEY \o <<"=", "b", "\n">>, Malformed }

\* The disks of the model: at most MaxFiles of the files exist
Disks ==
    UNION {[S -> Contents] : S \in {T \in SUBSET FilePaths : Cardinality(T) <= MaxFiles}}

parent(path) == SubSeq(path, 1, Len(path) - 1)
file_name(path) == path[Len(path)]

\* Path::starts_with: whole components
starts_with(path, base) ==
    Len(base) <= Len(path) /\ SubSeq(path, 1, Len(base)) = base

\* The entries read_dir gives for directory d: its files and subdirectories
entries(d) ==
    {f \in DOMAIN fs : parent(f) = d} \cup {x \in Directories : parent(x) = d}

\* The names find_env_files accepts: E.env and E.sec of every environment
\* asked for, then .env and .sec
RECURSIVE env_file_names(_)
env_file_names(es) ==
    IF es = <<>> THEN <<>>
    ELSE <<es[1] \o ".env", es[1] \o ".sec">> \o env_file_names(SubSeq(es, 2, Len(es)))

\* A find_env_files that never pushes the two global names
acceptable_names_without_globals(es) ==
    LET names == env_file_names(es)
    IN {names[i] : i \in 1..Len(names)}

\* The acceptable names: files.push(".env"); files.push(".sec")
acceptable_names(es) ==
    LET names == env_file_names(es) \o <<".env", ".sec">>
    IN {names[i] : i \in 1..Len(names)}

\* let end = request_file.canonicalize().unwrap().parent()
walk_end == parent(RequestFile)

\* A find_env_files that starts one directory above end whatever git_root says
walk_start_above_end == parent(walk_end)

\* let start = match git_root(&end) { Some(root) => root.parent(), None => end }
walk_start == IF gitRoot = <<>> THEN walk_end ELSE parent(gitRoot[1])

\* A walk without filter_entry: every directory is descended into
filter_entry_everything(e) == TRUE

\* filter_entry: end.starts_with(entry.path()) || entry.file_type().is_file()
filter_entry(e) == starts_with(walk_end, e) \/ e \in DOMAIN fs

\* read_sys_envs: every variable of the process, tagged EnvVar
RECURSIVE read_sys_envs(_)
read_sys_envs(vs) ==
    IF vs = <<>> THEN <<>>
    ELSE <<with_source(Property(vs[1][1], vs[1][2], EnvVar), EnvVar)>>
             \o read_sys_envs(SubSeq(vs, 2, Len(vs)))

\* read_file_envs: from_file of every file found, in order; the first error
\* is the result, otherwise the Properties flattened
RECURSIVE read_file_envs(_)
read_file_envs(files) ==
    IF files = <<>> THEN FileOk(<<>>)
    ELSE LET r == from_file(files[1], fs[files[1]])
         IN IF r.type = "Err" THEN r
            ELSE LET rest == read_file_envs(SubSeq(files, 2, Len(files)))
                 IN IF rest.type = "Err" THEN rest
                    ELSE FileOk(r.props \o rest.props)

\* read_arg_vars: the -E Properties, tagged Arg
read_arg_vars(avs) == [i \in 1..Len(avs) |-> with_source(avs[i], Arg)]

InitEnv ==
    /\ MergeIdle /\ ScanIdle /\ SubstIdle /\ CliIdle
    /\ fs \in Disks
    /\ denied \in {{}, {RepoDir}, {ApiDir}}
    /\ ioFailure \in {"none", "canonicalize", "git_root"}
    /\ gitRoot \in {<<>>, <<RepoDir>>}
    /\ osEnv \in {<<>>, <<(<<KEY, (<<"s">>)>>)>>}
    /\ environments \in {<<>>, <<"dev">>}
    /\ argVars \in {<<>>, <<from_str(KEY \o <<"=", "c">>).prop>>}
    /\ stack = <<>>
    /\ seen = {}
    /\ found = <<>>
    /\ envResult = NoResult
    /\ epc = "start"

\* Args::env as far as the walk: find_env_files computes end and start and
\* WalkDir::new(start) yields start itself, a directory that passes
\* filter_entry and is no file.
EnvStart ==
    /\ epc = "start"
    /\ ioFailure = "none"
    /\ stack' = <<walk_start>>
    /\ epc' = "walk"
    /\ UNCHANGED <<fs, denied, ioFailure, gitRoot, osEnv, environments, argVars, seen, found,
                   envResult>>
    /\ UNCHANGED <<mergeVars, scanVars, substVars, cliVars>>

\* request_file.canonicalize() returns Err and .unwrap() panics, or
\* giro::git_root(&end) returns Err and .expect("Resolve git root") panics:
\* Args::env returns nothing.
EnvPanic ==
    /\ epc = "start"
    /\ ioFailure # "none"
    /\ epc' = "panicked"
    /\ UNCHANGED <<fs, denied, ioFailure, gitRoot, osEnv, environments, argVars, stack, seen,
                   found, envResult>>
    /\ UNCHANGED <<mergeVars, scanVars, substVars, cliVars>>

\* WalkDir yields the next entry e of the innermost directory (read_dir
\* lists in any order).  A directory that passes filter_entry is descended
\* into at once; an entry that fails it is skipped; a file whose name is
\* acceptable is collected.
WalkEntry ==
    /\ epc = "walk"
    /\ stack # <<>>
    /\ stack[Len(stack)] \notin denied
    /\ \E e \in entries(stack[Len(stack)]) \ seen :
           /\ seen' = seen \cup {e}
           /\ IF e \in DOMAIN fs
              THEN /\ found' = IF filter_entry(e) /\ file_name(e) \in acceptable_names(environments)
                               THEN Append(found, e)
                               ELSE found
                   /\ UNCHANGED stack
              ELSE /\ stack' = IF filter_entry(e) THEN Append(stack, e) ELSE stack
                   /\ UNCHANGED found
    /\ UNCHANGED <<fs, denied, ioFailure, gitRoot, osEnv, environments, argVars, envResult, epc>>
    /\ UNCHANGED <<mergeVars, scanVars, substVars, cliVars>>

\* The innermost directory has no entry left: WalkDir goes back to its parent.
WalkLeave ==
    /\ epc = "walk"
    /\ stack # <<>>
    /\ stack[Len(stack)] \notin denied
    /\ entries(stack[Len(stack)]) \subseteq seen
    /\ stack' = SubSeq(stack, 1, Len(stack) - 1)
    /\ UNCHANGED <<fs, denied, ioFailure, gitRoot, osEnv, environments, argVars, seen, found,
                   envResult, epc>>
    /\ UNCHANGED <<mergeVars, scanVars, substVars, cliVars>>

\* read_dir of the innermost directory fails: WalkDir yields an Err item,
\* which filter_map(|entry| entry.ok()) drops, and goes on with the rest of
\* the parent directory.
WalkError ==
    /\ epc = "walk"
    /\ stack # <<>>
    /\ stack[Len(stack)] \in denied
    /\ stack' = SubSeq(stack, 1, Len(stack) - 1)
    /\ UNCHANGED <<fs, denied, ioFailure, gitRoot, osEnv, environments, argVars, seen, found,
                   envResult, epc>>
    /\ UNCHANGED <<mergeVars, scanVars, substVars, cliVars>>

\* The walk is over: read_file_envs reads the files found, and Args::env
\* returns its error or the Properties of the OS environment, then of the
\* files, then of -E.
EnvFinish ==
    /\ epc = "walk"
    /\ stack = <<>>
    /\ LET file_envs == read_file_envs(found)
       IN envResult' =
              IF file_envs.type = "Err" THEN file_envs
              ELSE FileOk(read_sys_envs(osEnv) \o file_envs.props \o read_arg_vars(argVars))
    /\ epc' = "done"
    /\ UNCHANGED <<fs, denied, ioFailure, gitRoot, osEnv, environments, argVars, stack, seen, found>>
    /\ UNCHANGED <<mergeVars, scanVars, substVars, cliVars>>

NextEnv ==
    \/ EnvStart
    \/ EnvPanic
    \/ WalkEntry
    \/ WalkLeave
    \/ WalkError
    \/ EnvFinish

SpecEnv == InitEnv /\ [][NextEnv]_vars

(***************************************************************************)
(* Args::env over a variable file of any content: from_file, from_str and  *)
(* normalize on every text of up to MaxLine characters                     *)
(***************************************************************************)
ParseChars == {"k", "=", "'", "\"", " ", "\n"}
FileTexts == SeqsUpTo(ParseChars, MaxLine)

\* The texts given to -E that clap's value parser (from_str) accepts
ArgTexts == {<<"k", "=", "k">>, <<"=", "k">>}

InitParse ==
    /\ MergeIdle /\ ScanIdle /\ SubstIdle /\ CliIdle
    /\ \E content \in FileTexts, above \in BOOLEAN :
           fs = IF above
                THEN (ApiDir \o <<GlobalName>> :> content)
                         @@ (RepoDir \o <<GlobalName>> :> KEY \o <<"=", "a", "\n">>)
                ELSE (ApiDir \o <<GlobalName>> :> content)
    /\ denied = {}
    /\ ioFailure = "none"
    /\ gitRoot \in {<<>>, <<RepoDir>>}
    /\ osEnv = <<(<<KEY, (<<"s">>)>>)>>
    /\ environments = <<>>
    /\ argVars \in {<<>>} \cup {<<from_str(t).prop>> : t \in ArgTexts}
    /\ stack = <<>>
    /\ seen = {}
    /\ found = <<>>
    /\ envResult = NoResult
    /\ epc = "start"

\* Every directory is readable here and no call of find_env_files fails
NextParse ==
    \/ EnvStart
    \/ WalkEntry
    \/ WalkLeave
    \/ EnvFinish

SpecParse == InitParse /\ [][NextParse]_vars

(***************************************************************************)
(* args.rs: the accessors print_request, print_headers, ask, interactive   *)
(***************************************************************************)
Args_interactive(a) == a.interactive

\* An ask that forgets the interactive flag
Args_ask_flag_only(a) == a.ask

Args_ask(a) == a.ask \/ Args_interactive(a)

Args_print_request(a) == a.request \/ Args_ask(a)

Args_print_headers(a) == a.headers \/ Args_ask(a)

\* Every combination of --request, --headers, --ask and --interactive
InitArgs ==
    /\ MergeIdle /\ ScanIdle /\ SubstIdle /\ EnvIdle
    /\ flags \in [request : BOOLEAN, headers : BOOLEAN, ask : BOOLEAN,
                   interactive : BOOLEAN]
    /\ answers = <<>>
    /\ req = NoRequest
    /\ hres = "none"
    /\ calls = 0

\* The caller asks accessor name and gets value
Answer(name, value) ==
    /\ name \notin DOMAIN answers
    /\ answers' = (name :> value) @@ answers
    /\ UNCHANGED <<flags, req, hres, calls>>
    /\ UNCHANGED <<mergeVars, scanVars, substVars, envVars>>

PrintRequest == Answer("print_request", Args_print_request(flags))
PrintHeaders == Answer("print_headers", Args_print_headers(flags))
Ask == Answer("ask", Args_ask(flags))
Interactive == Answer("interactive", Args_interactive(flags))

NextArgs ==
    \/ PrintRequest
    \/ PrintHeaders
    \/ Ask
    \/ Interactive

SpecArgs == InitArgs /\ [][NextArgs]_vars

(***************************************************************************)
(* httpx/src/lib.rs (and the same code in http/src/lib.rs): HttpRequest    *)
(* and set_default_headers                                                 *)
(***************************************************************************)
USER_AGENT_KEY == "user-agent"
USER_AGENT == "fire/0.1.0"
CONTENT_LENGTH_KEY == "content-length"
HOST_KEY == "host"

Methods == {"GET", "HEAD", "POST", "PUT", "DELETE", "PATCH"}

\* Option<String>: <<>> is None, <<b>> is Some(b)
Bodies == {<<>>, <<"">>, <<"hi">>}

\* The url field: without a scheme, with one, and one Url::parse rejects
UrlTexts == {"api.github.com/markdown", "http://h/x", ""}

\* The headers a request file may set, each to a value of its own
HeaderNames == {HOST_KEY, USER_AGENT_KEY, CONTENT_LENGTH_KEY, "accept"}
ExplicitHeaders == UNION {[S -> {"x"}] : S \in SUBSET HeaderNames}

UrlOk(host) == [ok |-> TRUE, host |-> <<host>>]
UrlErr == [ok |-> FALSE, host |-> <<>>]

\* HttpRequest::url: "https://" is put before a url without http:// or
\* https://, then Url::parse; host_str() of the result
url(r) ==
    CASE r.url = "api.github.com/markdown" -> UrlOk("api.github.com")
      [] r.url = "http://h/x" -> UrlOk("h")
      [] OTHER -> UrlErr

body_size(r) ==
    IF r.method \in {"PUT", "POST", "DELETE", "PATCH"}
    THEN IF r.body = <<>> THEN 0 ELSE Len(r.body[1])
    ELSE 0

has_body(r) == body_size(r) # 0

header(key, value) == <<key, value>>

\* An insertion that replaces the value the request set
or_insert_overwriting(h, key, value) ==
    [x \in DOMAIN h \cup {key} |-> IF x = key THEN value ELSE h[x]]

\* self.headers.entry(key).or_insert(value)
or_insert(h, key, value) ==
    IF key \in DOMAIN h THEN h ELSE (key :> value) @@ h

\* The Vec default of set_default_headers
default_headers(r) ==
    (IF url(r).host # <<>> THEN <<header(HOST_KEY, url(r).host[1])>> ELSE <<>>)
        \o (IF has_body(r)
            THEN <<header(CONTENT_LENGTH_KEY, ToString(body_size(r)))>>
            ELSE <<>>)
        \o <<header(USER_AGENT_KEY, USER_AGENT)>>

\* default.into_iter().for_each(|(key, value)| ...)
RECURSIVE for_each(_, _)
for_each(h, default) ==
    IF default = <<>> THEN h
    ELSE for_each(or_insert(h, default[1][1], default[1][2]),
                  SubSeq(default, 2, Len(default)))

InitHeaders ==
    /\ MergeIdle /\ ScanIdle /\ SubstIdle /\ EnvIdle
    /\ flags = [request |-> FALSE, headers |-> FALSE, ask |-> FALSE, interactive |-> FALSE]
    /\ answers = <<>>
    /\ req \in [method : Methods, url : UrlTexts, body : Bodies, headers : ExplicitHeaders]
    /\ hres = "none"
    /\ calls = 0

\* set_default_headers returns Ok(())
SetDefaultHeaders ==
    /\ hres # "panicked"
    /\ calls < MaxCalls
    /\ url(req).ok
    /\ req' = [req EXCEPT !.headers = for_each(req.headers, default_headers(req))]
    /\ hres' = "Ok"
    /\ calls' = calls + 1
    /\ UNCHANGED <<flags, answers>>
    /\ UNCHANGED <<mergeVars, scanVars, substVars, envVars>>

\* self.url().unwrap() panics on a url that does not parse
SetDefaultHeadersPanic ==
    /\ hres # "panicked"
    /\ ~url(req).ok
    /\ hres' = "panicked"
    /\ UNCHANGED <<flags, answers, req, calls>>
    /\ UNCHANGED <<mergeVars, scanVars, substVars, envVars>>

NextHeaders ==
    \/ SetDefaultHeaders
    \/ SetDefaultHeadersPanic

SpecHeaders == InitHeaders /\ [][NextHeaders]_vars

(***************************************************************************)
(* Claims about merge and the orderings (SpecMerge)                        *)
(***************************************************************************)
Indices == 1..Len(maps)

\* One more than the number of File depths: above every File precedence
DeepestFile == 1 + Cardinality(Depths)

\* The override precedence the documentation states:
\* EnvVar < File(shallower) < File(deeper) < Arg.
Precedence(s) ==
    CASE s.kind = "EnvVar" -> 0
      [] s.kind = "File" -> 1 + s.depth
      [] s.kind = "Arg" -> DeepestFile + 1

\* i holds key k with the highest precedence among the Properties with key k
Top(i) ==
    \A j \in Indices :
        maps[j].key = maps[i].key
            => Precedence(maps[j].source) <= Precedence(maps[i].source)

\* C1: for every list given to merge and every key k in it, the merged value
\* of k is the value of a Property with key k whose source has the highest
\* precedence among the Properties with key k (so an Arg value always wins).
C1_MergeHighestPrecedenceWins ==
    mpc = "merged" =>
        /\ DOMAIN merged = {maps[i].key : i \in Indices}
        /\ \A k \in DOMAIN merged :
               \E i \in Indices :
                   /\ maps[i].key = k
                   /\ Top(i)
                   /\ merged[k] = maps[i].value

\* An Arg in the middle of the list beats a File and an EnvVar of another value.
C1_Witness ==
    /\ mpc = "merged"
    /\ \E i, j, l \in Indices :
           /\ j < i /\ i < l
           /\ maps[i].source = Arg
           /\ maps[j].source.kind = "File"
           /\ maps[l].source = EnvVar
           /\ maps[j].key = maps[i].key /\ maps[l].key = maps[i].key
           /\ maps[j].value # maps[i].value /\ maps[l].value # maps[i].value
           /\ merged[maps[i].key] = maps[i].value

\* i and j are File Properties of one key and one depth that no Property of
\* that key outranks
TiedFiles(i, j) ==
    /\ i < j
    /\ maps[i].source.kind = "File"
    /\ maps[j].source = maps[i].source
    /\ maps[j].key = maps[i].key
    /\ Top(i)

\* C8 as stated: of two File Properties with the same key and equal depth,
\* the one occurring later in the list determines the merged value.
C8_LastDiscoveredWins ==
    mpc = "merged" =>
        \A i, j \in Indices :
            (TiedFiles(i, j) /\ \A l \in Indices : l > j => ~TiedFiles(i, l))
                => merged[maps[i].key] = maps[j].value

\* C8 amended: of File Properties with the same key and equal depth (that no
\* Property of the key outranks), the one occurring earliest in the list
\* determines the merged value.
C8_FirstDiscoveredWins ==
    mpc = "merged" =>
        \A i, j \in Indices :
            (TiedFiles(i, j) /\ \A l \in Indices : l < i => ~TiedFiles(l, i))
                => merged[maps[i].key] = maps[i].value

C8_Witness ==
    /\ mpc = "merged"
    /\ \E i, j \in Indices :
           /\ TiedFiles(i, j)
           /\ maps[i].value # maps[j].value
           /\ \A l \in Indices : l < i => ~TiedFiles(l, i)
           /\ merged[maps[i].key] = maps[i].value

\* A list Args::env can produce: the OS environment holds a key once.
FromArgsEnv ==
    \A i, j \in Indices :
        (maps[i].source = EnvVar /\ maps[j].source = EnvVar /\ maps[i].key = maps[j].key)
            => i = j

\* C9: for every list Args::env can produce and every permutation of it,
\* merge returns the same mapping.
C9_MergeOrderIndependent ==
    (mpc = "merged" /\ FromArgsEnv) =>
        \A f \in Permutations(Indices) :
            merge([i \in Indices |-> maps[f[i]]]) = merged

Reverse(o) == CASE o = "Less" -> "Greater" [] o = "Greater" -> "Less" [] o = "Equal" -> "Equal"

SourcesSeen == {maps[i].source : i \in Indices}

\* The ascending sort position the claim states: Arg, then File from deepest
\* to shallowest, then EnvVar.
SortRank(s) ==
    CASE s.kind = "Arg" -> 0
      [] s.kind = "File" -> DeepestFile - s.depth
      [] s.kind = "EnvVar" -> DeepestFile + 1

\* C10: Source's comparison is a total order with
\* Arg < File(d1) < File(d2) < EnvVar whenever d1 > d2, so sorting ascending
\* gives the Arg Properties, then File from deepest to shallowest, then EnvVar;
\* [File(0), File(1), Arg, EnvVar] sorts to [Arg, File(1), File(0), EnvVar].
C10_SourceTotalOrder ==
    /\ \A x, y \in SourcesSeen :
           /\ Source_cmp(x, y) = Reverse(Source_cmp(y, x))
           /\ Source_cmp(x, x) = "Equal"
           /\ (Source_cmp(x, y) = "Less") <=> (SortRank(x) < SortRank(y))
           /\ (Source_cmp(x, y) = "Equal") <=> (x = y)
    /\ \A x, y, z \in SourcesSeen :
           (Source_cmp(x, y) = "Less" /\ Source_cmp(y, z) = "Less")
               => Source_cmp(x, z) = "Less"
    /\ mpc = "merged" =>
           /\ Len(sorted) = Len(maps)
           /\ \A p \in Properties :
                  Cardinality({i \in Indices : sorted[i] = p})
                      = Cardinality({i \in Indices : maps[i] = p})
           /\ \A i, j \in Indices :
                  i < j => SortRank(sorted[i].source) <= SortRank(sorted[j].source)
           /\ [i \in Indices |-> maps[i].source] = <<File(0), File(1), Arg, EnvVar>>
                  => sorted = <<maps[3], maps[2], maps[1], maps[4]>>

C10_Witness ==
    /\ mpc = "merged"
    /\ [i \in Indices |-> maps[i].source] = <<File(0), File(1), Arg, EnvVar>>
    /\ [i \in Indices |-> sorted[i].source] = <<Arg, File(1), File(0), EnvVar>>

(***************************************************************************)
(* Claims about the placeholder scanner (SpecScan)                         *)
(***************************************************************************)
\* t holds p as a contiguous substring starting at i
OccursAt(t, p, i) ==
    /\ i >= 1
    /\ i + Len(p) - 1 <= Len(t)
    /\ SubSeq(t, i, i + Len(p) - 1) = p

Occurs(t, p) == \E i \in 1..Len(t) : OccursAt(t, p, i)

\* C2: every key find_keys returns is a real placeholder of the template:
\* the template holds two opening braces, the key, two closing braces as one
\* contiguous substring.
C2_KeysAreRealPlaceholders ==
    \A k \in keys : Occurs(template, Placeholder(k))

\* The non-empty identifier strings short enough to sit in a template
RECURSIVE Identifiers(_)
Identifiers(n) ==
    IF n = 0 THEN {<<>>}
    ELSE LET shorter == Identifiers(n - 1)
         IN shorter \cup {Append(k, c) : k \in shorter, c \in IdenChars \cap ScanChars}

\* C3: find_keys finds every placeholder: a placeholder {{K}} of a non-empty
\* identifier K that is not directly preceded by an opening brace nor
\* directly followed by a closing brace puts K in the result.
C3_EveryPlaceholderFound ==
    \A k \in Identifiers(MaxLen - 4) \ {<<>>} :
        \A i \in 1..Len(template) :
            ( /\ OccursAt(template, Placeholder(k), i)
              /\ (i > 1 => template[i - 1] # "{")
              /\ (i + Len(k) + 4 <= Len(template) => template[i + Len(k) + 4] # "}") )
                => k \in keys

\* C4: every key find_keys returns is non-empty and made of identifier
\* characters only (no empty, whitespace or brace key).
C4_KeysAreIdentifiers ==
    \A k \in keys :
        /\ k # <<>>
        /\ \A i \in 1..Len(k) : k[i] \in IdenChars /\ k[i] \notin {" ", "{", "}"}

\* A key was returned from a template that also holds {{}}, {{ }} or {{{}}}.
C4_Witness ==
    /\ keys # {}
    /\ \/ Occurs(template, <<"{", "{", "}", "}">>)
       \/ Occurs(template, <<"{", "{", " ", "}", "}">>)
       \/ Occurs(template, <<"{", "{", "{", "}", "}", "}">>)
    /\ \E i \in 1..Len(template) : template[i] = " "

(***************************************************************************)
(* Claims about substitution (SpecSubst)                                   *)
(***************************************************************************)
\* The keys of the template that the Properties given do not define
Missing == find_keys(input) \ {given[i].key : i \in 1..Len(given)}

Returned == spc \in {"rendering", "done", "failed"}

\* C5: in strict mode with a non-empty missing set, substitution issues no
\* prompt, renders nothing and returns MissingValue(k) for a k of the
\* missing set.
C5_StrictMissingValue ==
    (~interactive /\ Missing # {} /\ spc # "start") =>
        /\ spc = "failed"
        /\ prompts = <<>>
        /\ outcome.type = "Err" /\ outcome.error = "MissingValue"
        /\ outcome.key \in Missing
        /\ outcome.text = <<>>

\* "Hello {{NAME}}" with an empty mapping fails naming NAME.
C5_Witness ==
    /\ ~interactive
    /\ input = Hello \o <<" ">> \o Placeholder(NAME)
    /\ given = <<>>
    /\ spc = "failed"
    /\ outcome = MissingValue(NAME)

PromptKeys == {prompts[i].key : i \in 1..Len(prompts)}

\* C6: in interactive mode the prompt is invoked exactly once for each
\* missing key and for no other key, one prompt at a time, each answer
\* non-empty; once every prompt is answered resolve_values has returned a
\* mapping that holds every key of the template, each prompted key with the
\* answer given for it.
C6_InteractivePrompts ==
    (interactive /\ spc # "start") =>
        /\ \A i \in 1..Len(prompts) :
               /\ prompts[i].key \in Missing
               /\ \A j \in 1..Len(prompts) : prompts[j].key = prompts[i].key => i = j
               /\ ~prompts[i].answered => (i = Len(prompts) /\ spc \in {"asking", "panicked"})
               /\ prompts[i].answered => prompts[i].answer # <<>>
        /\ (spc # "panicked" /\ \A i \in 1..Len(prompts) : prompts[i].answered)
               => \/ spc = "loop" /\ diff # {} /\ PromptKeys \cup diff = Missing
                  \/ /\ Returned
                     /\ PromptKeys = Missing
                     /\ find_keys(input) \subseteq DOMAIN mapping
                     /\ \A i \in 1..Len(prompts) : mapping[prompts[i].key] = prompts[i].answer

\* Properties were given, but for neither key of the template: both keys
\* were prompted for, one after the other, with different answers.
C6_Witness ==
    /\ interactive
    /\ Returned
    /\ Len(prompts) = 2
    /\ prompts[1].answer # prompts[2].answer
    /\ mapping[prompts[1].key] = prompts[1].answer
    /\ mapping[prompts[2].key] = prompts[2].answer
    /\ given # <<>>

(***************************************************************************)
(* Claims about Args::env (SpecEnv)                                        *)
(***************************************************************************)
IsGlobal(f) == file_name(f) \in {".env", ".sec"}

\* The values file f gives key k
ValuesIn(f, k) ==
    LET ps == from_file(f, fs[f]).props
    IN {ps[i].value : i \in {j \in 1..Len(ps) : ps[j].key = k}}

FoundFiles == {found[i] : i \in 1..Len(found)}

\* C7: when key k is defined both in a global file (.env, .sec) and in an
\* environment-named file among the files found, the resolved value of k is
\* the one from the environment-named file, whatever the directories of the
\* two files (a -E override of k aside).
C7_EnvironmentFileOverridesGlobal ==
    (epc = "done" /\ envResult.type = "Ok") =>
        \A k \in {KEY} :
            LET globals == {f \in FoundFiles : IsGlobal(f) /\ ValuesIn(f, k) # {}}
                named == {f \in FoundFiles : ~IsGlobal(f) /\ ValuesIn(f, k) # {}}
            IN (globals # {} /\ named # {} /\ \A i \in 1..Len(argVars) : argVars[i].key # k)
                   => merge(envResult.props)[k] \in UNION {ValuesIn(f, k) : f \in named}

\* Directory d lies on the chain from start down to end
OnChain(d) == starts_with(d, walk_start) /\ starts_with(walk_end, d)

\* C11: every path find_env_files returns is a file whose directory lies on
\* the chain from start to end, and every directory the walk descends into
\* (the stack of directories being read) lies on that chain: no sibling of a
\* chain directory and no subdirectory of end is entered.
C11_DiscoveryStaysOnChain ==
    /\ \A i \in 1..Len(found) :
           found[i] \in DOMAIN fs /\ OnChain(parent(found[i]))
    /\ \A i \in 1..Len(stack) : OnChain(stack[i])

\* The walk is over, it returned a file of end, it met the sibling directory
\* and the subdirectory of end, and the subdirectory holds a global file
C11_Witness ==
    /\ epc = "done"
    /\ gitRoot # <<>>
    /\ (ApiDir \o <<GlobalName>>) \in FoundFiles
    /\ (SubDir \o <<GlobalName>>) \in DOMAIN fs
    /\ {LibDir, SubDir} \subseteq seen

\* C12: when the request file is inside a Git repository, every file
\* find_env_files returns lies in the repository root or below it.
C12_ConfinedToRepository ==
    gitRoot # <<>> =>
        \A i \in 1..Len(found) : starts_with(found[i], gitRoot[1])

\* C13: when git_root returns None, every file returned lies directly in the
\* request file's directory and no other directory is read.
C13_NoRepositoryNoTraversal ==
    gitRoot = <<>> =>
        /\ \A i \in 1..Len(found) : parent(found[i]) = parent(RequestFile)
        /\ \A i \in 1..Len(stack) : stack[i] = parent(RequestFile)

\* No repository, a global file beside the request was returned, and a
\* global file exists one directory above
C13_Witness ==
    /\ epc = "done"
    /\ gitRoot = <<>>
    /\ (ApiDir \o <<GlobalName>>) \in FoundFiles
    /\ (RepoDir \o <<GlobalName>>) \in DOMAIN fs

\* The names the claim accepts for the environments asked for
AcceptableNames ==
    {".env", ".sec"} \cup
        UNION {{environments[i] \o ".env", environments[i] \o ".sec"} :
                   i \in 1..Len(environments)}

\* The files on the chain whose name is acceptable
ChainFiles ==
    {f \in DOMAIN fs : OnChain(parent(f)) /\ file_name(f) \in AcceptableNames}

\* C14: no file with another name is ever collected; and when no directory
\* of the chain fails to read, find_env_files returns exactly the files on
\* the chain whose name is .env, .sec, E.env or E.sec for a requested E, each
\* once.
C14_ExactlyAcceptableFiles ==
    /\ \A i \in 1..Len(found) : file_name(found[i]) \in AcceptableNames
    /\ (epc = "done" /\ \A d \in denied : ~OnChain(d)) =>
           /\ FoundFiles = ChainFiles
           /\ Cardinality(FoundFiles) = Len(found)

\* An environment was asked for, its .sec file was returned, and a file
\* with a name that is not acceptable lies beside it
C14_Witness ==
    /\ epc = "done"
    /\ environments # <<>>
    /\ \A d \in denied : ~OnChain(d)
    /\ (ApiDir \o <<DevSecName>>) \in FoundFiles
    /\ (ApiDir \o <<OtherName>>) \in DOMAIN fs

\* C20: when a directory of the chain fails to read, Args::env returns an
\* error instead of a list of Properties.
C20_WalkErrorSurfaced ==
    (epc = "done" /\ \E d \in denied : OnChain(d)) => envResult.type = "Err"

(***************************************************************************)
(* Claims about reading variable files (SpecParse)                         *)
(***************************************************************************)
Blank(l) == \A i \in 1..Len(l) : l[i] = " "

\* The non-blank lines of found file number j
NonBlank(j) == SelectSeq(lines(fs[found[j]]), LAMBDA l : ~Blank(l))

HasDelimiter(l) == \E p \in 1..Len(l) : l[p] = "="

\* The position of the first '=' of line l
FirstDelimiter(l) ==
    CHOOSE p \in 1..Len(l) : l[p] = "=" /\ \A q \in 1..(p - 1) : l[q] # "="

Left(l) == SubSeq(l, 1, FirstDelimiter(l) - 1)
Right(l) == SubSeq(l, FirstDelimiter(l) + 1, Len(l))

\* The found files that hold a non-blank line without '='
BadFiles == {j \in 1..Len(found) : \E i \in 1..Len(NonBlank(j)) : ~HasDelimiter(NonBlank(j)[i])}

\* The first line without '=' of found file j
FirstBadLine(j) ==
    LET nb == NonBlank(j)
        i == CHOOSE x \in 1..Len(nb) :
                 ~HasDelimiter(nb[x]) /\ \A y \in 1..(x - 1) : HasDelimiter(nb[y])
    IN nb[i]

\* Where the Properties of found file j start in the list Args::env returns
RECURSIVE Offset(_)
Offset(j) == IF j = 1 THEN Len(osEnv) ELSE Offset(j - 1) + Len(NonBlank(j - 1))

\* C15: each non-blank line of a variable file gives one Property, its key
\* the normalized text left of the first '=' and its value the normalized
\* text right of it; blank lines give nothing; and when a non-blank line has
\* no '=', Args::env returns the error Entry(that line) of the first such
\* file and no Property at all.
C15_FileLinesParsedOrFatal ==
    epc = "done" =>
        IF BadFiles = {}
        THEN /\ envResult.type = "Ok"
             /\ Len(envResult.props) =
                    Offset(Len(found) + 1) + Len(argVars)
             /\ \A j \in 1..Len(found) : \A i \in 1..Len(NonBlank(j)) :
                    LET l == NonBlank(j)[i]
                        p == envResult.props[Offset(j) + i]
                    IN /\ p.key = normalize(Left(l))
                       /\ p.value = normalize(Right(l))
                       /\ p.source = File(Len(found[j]))
        ELSE LET j == CHOOSE x \in BadFiles : \A y \in BadFiles : x <= y
             IN /\ envResult.type = "Err"
                /\ envResult.props = <<>>
                /\ envResult.error = FirstBadLine(j)

\* Args::env returned the error of a file whose first line parses and whose
\* second does not, another file being found after it
C15_Witness ==
    /\ epc = "done"
    /\ envResult.type = "Err"
    /\ Len(found) = 2
    /\ BadFiles = {1}
    /\ Len(NonBlank(1)) = 2
    /\ HasDelimiter(NonBlank(1)[1])

Quotes == {"'", "\""}

\* One layer of matching quotes removed, nothing otherwise
StripOneLayer(t) ==
    IF Len(t) >= 2 /\ t[1] \in Quotes /\ t[1] = t[Len(t)]
    THEN SubSeq(t, 2, Len(t) - 1)
    ELSE t

\* C16: the key and the value of every Property read from a file are the
\* texts left and right of the '=' with surrounding whitespace removed and
\* then exactly one layer of matching quotes removed; quotes on one side
\* only, mismatched quotes and inner quotes stay.
C16_OneLayerOfMatchingQuotes ==
    (epc = "done" /\ envResult.type = "Ok") =>
        \A j \in 1..Len(found) : \A i \in 1..Len(NonBlank(j)) :
            LET l == NonBlank(j)[i]
                p == envResult.props[Offset(j) + i]
            IN /\ p.key = StripOneLayer(trim(Left(l)))
               /\ p.value = StripOneLayer(trim(Right(l)))

\* C17: every Property Args::env returns, from a file line, from -E or from
\* the OS environment, has a non-empty key.
C17_KeysNonEmpty ==
    \A i \in 1..Len(envResult.props) : envResult.props[i].key # <<>>

(***************************************************************************)
(* Claims about the outcomes of substitution (SpecSubst)                   *)
(***************************************************************************)
\* C18: substitution fails only for a missing key in strict mode, and it
\* aborts only when a prompt fails: once every key the scanner found has a
\* value, the call ends with a rendered string.
C18_OnlyMissingValueFails ==
    /\ spc = "failed" => (~interactive /\ outcome \in {MissingValue(k) : k \in Missing})
    /\ spc = "panicked" => asking # <<>>

\* C19: when interact_text reports a failure (the prompt in progress ends
\* without an answer), substitution returns an error to its caller; it does
\* not panic.
C19_PromptFailureReturned ==
    [][(spc = "asking" /\ spc' # "asking" /\ ~prompts'[Len(prompts')].answered)
           => (spc' = "failed" /\ outcome'.type = "Err")]_vars

(***************************************************************************)
(* Claims about failures of discovery (SpecEnv)                            *)
(***************************************************************************)
\* C21: when the request file's path cannot be canonicalized or the lookup
\* of the Git root fails, Args::env returns an error value to its caller; it
\* never panics.
C21_DiscoveryFailureReturned ==
    (ioFailure # "none" /\ epc # "start") =>
        (epc = "done" /\ envResult.type = "Err")

(***************************************************************************)
(* Claims about the rendered text and the prompts (SpecSubst)              *)
(***************************************************************************)
\* Template t from index i on, every occurrence of the placeholder of a key
\* in ks replaced by the key's value in m and every other character kept
RECURSIVE Substituted(_, _, _, _)
Substituted(t, m, ks, i) ==
    IF i > Len(t) THEN <<>>
    ELSE LET hit == {k \in ks : OccursAt(t, Placeholder(k), i)}
         IN IF hit # {}
            THEN LET k == CHOOSE x \in hit : TRUE
                 IN m[k] \o Substituted(t, m, ks, i + Len(Placeholder(k)))
            ELSE <<t[i]>> \o Substituted(t, m, ks, i + 1)

\* C22: on a successful substitution the output is the template with every
\* occurrence of a placeholder the scanner recognised replaced by its value
\* and every other character unchanged, brace sequences the scanner did not
\* recognise included.
C22_OnlyRecognisedPlaceholdersReplaced ==
    spc = "done" => outcome.text = Substituted(input, mapping, required, 1)

\* C23: the order of the prompts (and the key a strict-mode error names) is
\* the same in every run on the same template and mapping.  resolve_values
\* takes the keys of diff in the iteration order of a HashSet, which differs
\* from run to run, so two runs agree exactly when the loop never has more
\* than one key to choose from, and the error never more than one to name.
C23_PromptOrderStable ==
    /\ spc = "loop" => Cardinality(diff) <= 1
    /\ (spc = "failed" /\ outcome.error = "MissingValue") => Cardinality(Missing) <= 1

\* The mapping resolve_values is given
GivenMapping == merge(given)

\* C28: resolve_values keeps every entry of the mapping it is given, never
\* prompts for a key that has a value, and with nothing missing returns the
\* mapping as it is without a prompt.
C28_GivenMappingKept ==
    spc # "start" =>
        /\ \A k \in DOMAIN GivenMapping :
               k \in DOMAIN mapping /\ mapping[k] = GivenMapping[k]
        /\ \A i \in 1..Len(prompts) : prompts[i].key \notin DOMAIN GivenMapping
        /\ \A k \in DOMAIN added : k \notin DOMAIN GivenMapping
        /\ Missing = {} => (mapping = GivenMapping /\ prompts = <<>>)

\* A prompt was answered for a key without a value while another key of the
\* template had one, and the mapping was returned
C28_Witness ==
    /\ spc = "done"
    /\ Len(prompts) = 1
    /\ required \cap DOMAIN GivenMapping # {}
    /\ DOMAIN mapping = DOMAIN GivenMapping \cup {prompts[1].key}
    /\ mapping[prompts[1].key] = prompts[1].answer

(***************************************************************************)
(* Claims about the priority of a variable file (SpecParse)                *)
(***************************************************************************)
\* The Properties Args::env returned for found file j, in line order
PropertiesOf(j) ==
    [i \in 1..Len(NonBlank(j)) |-> envResult.props[Offset(j) + i]]

\* Every Property of every found file has source File(Depth(file)) and the
\* key and value from_str gave its line
TaggedWith(Depth(_)) ==
    (epc = "done" /\ envResult.type = "Ok") =>
        \A j \in 1..Len(found) : \A i \in 1..Len(NonBlank(j)) :
            LET parsed == from_str(NonBlank(j)[i]).prop
                p == PropertiesOf(j)[i]
            IN /\ p.source = File(Depth(found[j]))
               /\ p.key = parsed.key
               /\ p.value = parsed.value

DirectoryComponents(path) == Len(parent(path))
PathComponents(path) == Len(path)

ProperAncestor(d, e) == starts_with(e, d) /\ d # e

\* C25: a file in a directory that is a proper ancestor of another file's
\* directory comes before that file in the list find_env_files returns,
\* whatever the order in which a directory's entries are listed.
C25_ShallowToDeep ==
    \A i, j \in 1..Len(found) :
        ProperAncestor(parent(found[i]), parent(found[j])) => i < j

(***************************************************************************)
(* Claims about ties in merge (SpecMerge)                                  *)
(***************************************************************************)
\* Properties i and j have the same key and sources of equal rank
EqualRank(i, j) ==
    /\ i # j
    /\ maps[i].key = maps[j].key
    /\ Source_cmp(maps[i].source, maps[j].source) = "Equal"

\* C30: among the Properties of a key whose source has the highest rank,
\* merge keeps the value of the one that occurs earliest in the list; two
\* -E overrides of one key (both Arg) are such a tie.
C30_FirstOfEqualRankWins ==
    mpc = "merged" =>
        \A i \in Indices :
            (Top(i) /\ \A l \in Indices : l < i => ~EqualRank(l, i))
                => merged[maps[i].key] = maps[i].value

\* Two Arg Properties of one key with different values were merged, and the
\* earlier one's value is the result
C30_Witness ==
    /\ mpc = "merged"
    /\ \E i, j \in Indices :
           /\ i < j
           /\ EqualRank(i, j)
           /\ maps[i].source = Arg
           /\ maps[i].value # maps[j].value
           /\ \A l \in Indices : l < i => ~EqualRank(l, i)
           /\ merged[maps[i].key] = maps[i].value

(***************************************************************************)
(* Claims about the scanner's brace counters (SpecScan)                    *)
(***************************************************************************)
BraceStates == {<<0, 0>>, <<1, 0>>, <<2, 0>>, <<2, 1>>}

\* C29: after every character of every template the brace counters of
\* find_keys are (0,0), (1,0), (2,0) or (2,1), and the branch that panics
\* with "Braces ran out of control" has not run.
C29_ScannerNeverPanics ==
    /\ ~panicked
    /\ braces \in BraceStates

\* A template of full length was scanned, a key was found, and the scanner
\* stands inside another candidate
C29_Witness ==
    /\ Len(template) = MaxLen
    /\ keys # {}
    /\ braces = <<2, 0>>
    /\ state # <<>>

(***************************************************************************)
(* Claims about set_default_headers (SpecHeaders)                          *)
(***************************************************************************)
\* C26: a call of set_default_headers that returns keeps every header the
\* request had, leaves user-agent present, leaves host present when the URL
\* has a host name, adds content-length only to a POST, PUT, DELETE or
\* PATCH request with a non-empty body, touches nothing but the headers, and
\* changes nothing at all when it is not the first call.
C26_DefaultsOnlyWhereAbsent ==
    [][calls' = calls + 1 =>
          /\ \A k \in DOMAIN req.headers :
                 k \in DOMAIN req'.headers /\ req'.headers[k] = req.headers[k]
          /\ "user-agent" \in DOMAIN req'.headers
          /\ url(req).host # <<>> => "host" \in DOMAIN req'.headers
          /\ "content-length" \in (DOMAIN req'.headers \ DOMAIN req.headers) =>
                 /\ req.method \in {"POST", "PUT", "DELETE", "PATCH"}
                 /\ req.body # <<>>
                 /\ req.body[1] # ""
          /\ req' = [req EXCEPT !.headers = req'.headers]
          /\ calls >= 1 => req' = req]_vars

\* Two calls returned on a POST request with a body that set its own
\* user-agent: that value stays, host and content-length are the defaults
C26_Witness ==
    /\ calls = MaxCalls
    /\ req.method = "POST"
    /\ req.body = <<"hi">>
    /\ DOMAIN req.headers = {"user-agent", "host", "content-length"}
    /\ req.headers["user-agent"] = "x"
    /\ req.headers["host"] = "h"
    /\ req.headers["content-length"] = "2"

(***************************************************************************)
(* Claims about the flags of Args (SpecArgs)                               *)
(***************************************************************************)
Has(name) == name \in DOMAIN answers

\* C27: for every combination of the four flags, interactive() implies
\* ask(), ask() implies print_request() and print_headers(), print_request()
\* is false when none of request, ask, interactive is set, and
\* print_headers() is false when none of headers, ask, interactive is set.
C27_FlagImplications ==
    /\ (Has("interactive") /\ Has("ask") /\ answers["interactive"]) => answers["ask"]
    /\ (Has("ask") /\ Has("print_request") /\ answers["ask"]) => answers["print_request"]
    /\ (Has("ask") /\ Has("print_headers") /\ answers["ask"]) => answers["print_headers"]
    /\ (Has("print_request") /\ ~flags.request /\ ~flags.ask /\ ~flags.interactive)
           => ~answers["print_request"]
    /\ (Has("print_headers") /\ ~flags.headers /\ ~flags.ask /\ ~flags.interactive)
           => ~answers["print_headers"]

\* Only --interactive is set and all four accessors have answered TRUE
C27_Witness ==
    /\ flags = [request |-> FALSE, headers |-> FALSE, ask |-> FALSE, interactive |-> TRUE]
    /\ DOMAIN answers = {"print_request", "print_headers", "ask", "interactive"}
    /\ \A n \in DOMAIN answers : answers[n]

====
